---- MODULE Spec2Model ----
(***************************************************************************)
(* NCM converter (src/ncm_converter.py): decrypt_ncm, verify_output,       *)
(* get_worker_count and main as a state machine.                           *)
(*                                                                         *)
(* A file path is a record [stem, ext].  An input file is a container      *)
(* record: its first bytes (head), the AES-ECB decryption of its           *)
(* de-obfuscated key block (key_plain; the AES library is external, so the *)
(* block is named by its decrypted image), its metadata record, its        *)
(* embedded image and its encrypted audio payload.  Output files live in a *)
(* small file system: dir maps a path to an inode, data and pic hold an    *)
(* inode's bytes and the picture the tag writer embedded in it.            *)
(***************************************************************************)
EXTENDS Integers, Sequences, FiniteSets, TLC

VARIABLES
    files,          \* main: the enumerated input paths
    input,          \* file system: container stored at each input path
    dir,            \* file system: output path -> inode (NoIno when absent)
    data,           \* file system: inode -> bytes
    pic,            \* file system: inode -> picture embedded by the tag writer
    task,           \* decrypt_ncm: the locals of each call, by input path
    future,         \* main: state of each submitted future
    collected,      \* main: futures already taken from as_completed
    main_pc,        \* main: position
    worker_count,   \* main: max_workers of the pool
    success_count,  \* main
    fail_count      \* main

vars == <<files, input, dir, data, pic, task, future, collected, main_pc,
          worker_count, success_count, fail_count>>

fsVars == <<dir, data, pic>>
mainVars == <<future, collected, main_pc, worker_count, success_count, fail_count>>

-----------------------------------------------------------------------------
(* Bounds of the model *)

\* longest audio payload, in bytes (crosses the 256-byte table twice)
MaxPayload == 515
\* longest decrypted key block, in 16-byte cipher blocks
MaxBlocks == 2
\* largest os.cpu_count() considered
MaxCpu == 4

-----------------------------------------------------------------------------
(* Bytes *)

Byte == 0..255

Min(a, b) == IF a < b THEN a ELSE b
Max(a, b) == IF a > b THEN a ELSE b

RECURSIVE Xor(_, _)
\* a ^ b on non-negative integers
Xor(a, b) ==
    IF a = 0 THEN b
    ELSE IF b = 0 THEN a
    ELSE ((a + b) % 2) + 2 * Xor(a \div 2, b \div 2)

\* x & 0xff
And255(x) == x % 256

\* s[a:b] of Python for 0 <= a, on a TLA+ sequence (1-based)
Slice(s, a, b) == SubSeq(s, a + 1, Min(b, Len(s)))

\* binascii.b2a_hex: two hex digits (as numbers 0..15) per byte
B2aHex(s) ==
    [k \in 1..(2 * Len(s)) |->
        IF k % 2 = 1 THEN s[(k + 1) \div 2] \div 16 ELSE s[k \div 2] % 16]

\* b'4354454e4644414d' as hex digits
MagicHex == <<4, 3, 5, 4, 4, 5, 4, 14, 4, 6, 4, 4, 4, 1, 4, 13>>

\* "CTENFDAM"
Magic == <<67, 84, 69, 78, 70, 68, 65, 77>>

-----------------------------------------------------------------------------
(* Padding removal and keystream derivation *)

\* unpad = lambda s: s[0:-(s[-1])] : s[0:-0] is s[0:0], and a stop before the
\* start of the buffer is clamped to the start.  Needs a non-empty s.
unpad(s) ==
    LET n == s[Len(s)]
    IN  IF n = 0 THEN <<>> ELSE SubSeq(s, 1, Max(Len(s) - n, 0))

\* x[17:]
Drop17(s) == SubSeq(s, 18, Len(s))

\* box = list(range(256)), kept as a sequence: box[i] of the code is Box[i + 1]
BoxInit == [k \in 1..256 |-> k - 1]

\* j = (j + box[i] + key_data[i % len(key_data)]) & 0xff
KsaNextJ(box, j, i, key) == And255(j + box[i + 1] + key[(i % Len(key)) + 1])

\* box[i], box[j] = box[j], box[i]
KsaSwap(box, i, j) == [box EXCEPT ![i + 1] = box[j + 1], ![j + 1] = box[i + 1]]

\* one iteration of the loop of lines 84-86 on bj = <<box, j>>
KsaIter(bj, i, key) ==
    LET j2 == KsaNextJ(bj[1], bj[2], i, key)
    IN  <<KsaSwap(bj[1], i, j2), j2>>

RECURSIVE KsaRange(_, _, _, _)
\* iterations lo..hi-1 of the loop, from bj (split in halves: the order of
\* the iterations is kept; the one-element set has bj evaluated once, before
\* the iterations that read it)
KsaRange(bj, lo, hi, key) ==
    IF hi <= lo THEN bj
    ELSE CHOOSE r \in
            {IF hi = lo + 1 THEN KsaIter(b, lo, key)
             ELSE KsaRange(KsaRange(b, lo, (lo + hi) \div 2, key),
                           (lo + hi) \div 2, hi, key) : b \in {bj}} : TRUE

\* <<box, j>> after iterations 0..n-1 of the loop of lines 84-86
KsaRun(key, n) == KsaRange(<<BoxInit, 0>>, 0, n, key)

\* KeyStreamEntry with key1 = i instead of i + 1
KeyStreamEntryFromI(box, i) ==
    LET key1 == And255(i)
        key2 == And255(key1 + box[key1 + 1])
        idx == And255(box[key1 + 1] + box[key2 + 1])
    IN  box[idx + 1]

\* key_stream[i] of lines 90-93
KeyStreamEntry(box, i) ==
    LET key1 == And255(i + 1)
        key2 == And255(key1 + box[key1 + 1])
        idx == And255(box[key1 + 1] + box[key2 + 1])
    IN  box[idx + 1]

\* lines 88-93: the table read off the box
KeyStreamOf(box) == [k \in 1..256 |-> KeyStreamEntry(box, k - 1)]

\* lines 82-93 as one function of the key material
DeriveKeyStream(key) ==
    CHOOSE ks \in {KeyStreamOf(bj[1]) : bj \in {KsaRun(key, 256)}} : TRUE

-----------------------------------------------------------------------------
(* verify_output *)

SigFlac == <<102, 76, 97, 67>>
SigId3 == <<73, 68, 51>>
SigSyncB == <<255, 251>>
SigSyncA == <<255, 250>>

\* HeaderOk testing two bytes of each signature only
HeaderOkTwoBytes(header, audio_format) ==
    IF audio_format = "flac" THEN Slice(header, 0, 2) = Slice(SigFlac, 0, 2)
    ELSE IF audio_format = "mp3"
         THEN \/ Slice(header, 0, 2) = Slice(SigId3, 0, 2)
              \/ Slice(header, 0, 2) = SigSyncB
              \/ Slice(header, 0, 2) = SigSyncA
    ELSE FALSE

\* verify_output on the first (at most 4) bytes of the file
HeaderOk(header, audio_format) ==
    IF audio_format = "flac" THEN header = SigFlac
    ELSE IF audio_format = "mp3"
         THEN \/ Slice(header, 0, 3) = SigId3
              \/ Slice(header, 0, 2) = SigSyncB
              \/ Slice(header, 0, 2) = SigSyncA
    ELSE FALSE

-----------------------------------------------------------------------------
(* Paths, inodes and the file system *)

Path(stem, ext) == [stem |-> stem, ext |-> ext]

XNcm == Path("x", "ncm")
XNCM == Path("x", "NCM")
YNcm == Path("y", "ncm")
AllFiles == {XNcm, XNCM, YNcm}

\* no inode: the path does not exist / the task holds no open output
NoIno == Path("", "")
\* inode of an output file left by an earlier run
Prior == Path("", "prior")
PriorBytes == <<9, 9, 9, 9, 9>>
InodeIds == AllFiles \cup {Prior}

Formats == {"mp3", "flac", "ogg"}
OutPaths == {Path(s, f) : s \in {"x", "y"}, f \in Formats}

\* file_path.with_suffix(f'.{audio_format}')
WithSuffix(file_path, audio_format) == Path(file_path.stem, audio_format)

\* bytes `chunk` written at offset `pos` of a file holding `old`
WriteAt(old, pos, chunk) ==
    [k \in 1..Max(Len(old), pos + Len(chunk)) |->
        IF k > pos /\ k <= pos + Len(chunk) THEN chunk[k - pos]
        ELSE IF k <= Len(old) THEN old[k]
        ELSE 0]

\* verify_output(file_path, audio_format): a missing file raises inside the
\* try and gives False
verify_output(file_path, audio_format) ==
    LET ino == dir[file_path]
    IN  IF ino = NoIno THEN FALSE
        ELSE HeaderOk(Slice(data[ino], 0, 4), audio_format)

-----------------------------------------------------------------------------
(* Metadata, results *)

ArtistShapes ==
    {"empty", "list_of_str", "list_of_list", "list_of_empty_list",
     "list_of_num", "str", "number"}

\* the synthesized record of line 105
DefaultMeta == [format |-> "mp3", artist |-> "empty", musicId |-> 0]

\* lines 181-187 for an artist value that does not raise
ArtistOf(artist_data) ==
    IF artist_data \in {"list_of_str", "list_of_list", "str"} THEN "A" ELSE "Unknown"

\* artist_data[0] raises on a truthy value that cannot be indexed
ArtistRaises(artist_data) == artist_data = "number"

NoResult == [success |-> FALSE, error |-> "", cover |-> "", artist |-> "", format |-> ""]

Failure(error) == [NoResult EXCEPT !.error = error]

\* the dict of lines 189-198
Success(artist, audio_format, cover_info) ==
    [success |-> TRUE, error |-> "", cover |-> cover_info, artist |-> artist,
     format |-> audio_format]

\* the locals of a call of decrypt_ncm before its first statement.  odd_split,
\* raised_in and tagged are history: a chunk began off a multiple of 256,
\* the part of the cover/tag try that raised ("fetch", "embed", "" for none),
\* the bytes handed to the tag writer.
NewTask ==
    [pc |-> "start", key_data |-> <<>>, box |-> <<>>, j |-> 0, i |-> 0,
     key_stream |-> <<>>, meta_data |-> DefaultMeta, image_data |-> <<>>,
     audio_format |-> "", output_path |-> NoIno, out |-> NoIno, out_pos |-> 0,
     read_pos |-> 0, stream_index |-> 0, cover_info |-> "", cover_data |-> <<>>,
     odd_split |-> FALSE, raised_in |-> "", tagged |-> <<>>,
     result |-> NoResult]

\* return <result>
Return(st, result) == [st EXCEPT !.pc = "returned", !.result = result]

\* except Exception as e: return {'success': False, ..., 'error': str(e)}
Raise(st) == Return(st, Failure("exception"))

Set(t, st) == [task EXCEPT ![t] = st]

-----------------------------------------------------------------------------
(* Input containers *)

\* "neteasecloudmusic", the 17 bytes line 80 discards
Prefix17 == <<110, 101, 116, 101, 97, 115, 101, 99, 108, 111, 117, 100, 109,
              117, 115, 105, 99>>

\* a decrypted key block of len bytes whose last byte is last
KeyBuf(len, last) ==
    [k \in 1..len |->
        IF k = len THEN last
        ELSE IF k <= 17 THEN Prefix17[k]
        ELSE (k * 37 + 11) % 256]

\* a well-formed key block: 10 bytes of key material, 5 of padding
GoodKeyPlain == KeyBuf(32, 5)
GoodKeyStream == DeriveKeyStream(Drop17(unpad(GoodKeyPlain)))

\* decoded audio of n bytes that begins with sig (cut to n bytes)
Audio(sig, n) ==
    [k \in 1..n |-> IF k <= Len(sig) THEN sig[k] ELSE (k * 7 + 3) % 256]

\* the payload an encoder stores for the audio `plain` under the table ks
Encrypt(plain, ks) ==
    [k \in 1..Len(plain) |-> Xor(plain[k], ks[((k - 1) % 256) + 1])]

Meta(format, artist, musicId) ==
    [present |-> TRUE, valid |-> TRUE, format |-> format, artist |-> artist,
     musicId |-> musicId]
\* meta_len = 0
AbsentMeta == [Meta("", "empty", 0) EXCEPT !.present = FALSE]
\* a block that fails base64 / AES / UTF-8 / JSON decoding, or is no dict
MalformedMeta == [Meta("", "empty", 0) EXCEPT !.valid = FALSE]

EmbeddedImage == <<137, 80>>
NetImage == <<255, 216>>

Container(head, key_plain, meta, image, payload) ==
    [head |-> head, key_plain |-> key_plain, meta |-> meta, image |-> image,
     payload |-> payload]

SigOf(format) == IF format = "flac" THEN SigFlac ELSE SigId3

\* a container that converts: magic, reserved bytes, good key, audio of the
\* format of its metadata
GoodContainer(meta, image, plain) ==
    Container(Magic \o <<1, 112>>, GoodKeyPlain, meta, image,
              Encrypt(plain, GoodKeyStream))

BaseMeta == Meta("mp3", "list_of_str", 123)
BaseAudio == Audio(SigId3, 6)

BadHeads ==
    {<<>>, <<67>>, SubSeq(Magic, 1, 7), [Magic EXCEPT ![8] = 78],
     [Magic EXCEPT ![1] = 99] \o <<1, 112>>, <<0, 0, 0, 0, 0, 0, 0, 0, 0, 0>>}

HeadVariants ==
    {[GoodContainer(BaseMeta, EmbeddedImage, BaseAudio) EXCEPT !.head = h] :
        h \in BadHeads}

KeyVariants ==
    {[GoodContainer(BaseMeta, EmbeddedImage, BaseAudio) EXCEPT !.key_plain = k] :
        k \in {<<>>, KeyBuf(15, 1), KeyBuf(16, 16), KeyBuf(16, 0), KeyBuf(32, 15),
               KeyBuf(32, 200)}}

MetaVariants ==
    {GoodContainer(m, img, Audio(SigOf(m.format), 6)) :
        m \in {AbsentMeta, MalformedMeta}
              \cup {Meta(f, a, id) : f \in Formats, a \in ArtistShapes, id \in {0, 123}},
        img \in {<<>>, EmbeddedImage}}

AudioVariants ==
    {GoodContainer(Meta(f, "list_of_str", 123), EmbeddedImage, plain) :
        f \in {"mp3", "flac"},
        plain \in {Audio(SigId3, 6), Audio(SigSyncA, 6), Audio(SigSyncB, 6),
                   Audio(SigFlac, 6), Audio(SigFlac, 3), Audio(SigId3, 2),
                   Audio(<<255, 252>>, 6), Audio(<<>>, 6), <<>>}}

Containers == HeadVariants \cup KeyVariants \cup MetaVariants \cup AudioVariants

-----------------------------------------------------------------------------
(* decrypt_ncm(t), one action per block of the function *)

\* HeaderMatches comparing only the bytes that were read
HeaderMatchesPrefix(header) == header = SubSeq(Magic, 1, Len(header))

\* binascii.b2a_hex(header) != b'4354454e4644414d', negated
HeaderMatches(header) == B2aHex(header) = MagicHex

\* lines 68-72: read 8 bytes, check the signature, skip 2
ReadHeader(t) ==
    LET st == task[t]
        header == Slice(input[t].head, 0, 8)
    IN  /\ st.pc = "start"
        /\ task' = Set(t, IF ~HeaderMatches(header)
                         THEN Return(st, Failure("Invalid NCM header"))
                         ELSE [st EXCEPT !.pc = "key"])
        /\ UNCHANGED <<files, input, fsVars, mainVars>>

\* cryptor.decrypt raises on a block whose length is no multiple of 16, and
\* s[-1] raises on an empty buffer
KeyBlockRaises(block) == Len(block) % 16 # 0 \/ Len(block) = 0

\* lines 74-80: the key block, de-obfuscated, decrypted, unpadded, less 17 bytes
RecoverKey(t) ==
    LET st == task[t]
        block == input[t].key_plain
    IN  /\ st.pc = "key"
        /\ task' = Set(t, IF KeyBlockRaises(block)
                         THEN Raise(st)
                         ELSE [st EXCEPT !.pc = "ksa",
                                         !.key_data = Drop17(unpad(block))])
        /\ UNCHANGED <<files, input, fsVars, mainVars>>

\* lines 82-93 in one step; i % len(key_data) raises on empty key material
DeriveKeystream(t) ==
    LET st == task[t]
    IN  /\ st.pc = "ksa"
        /\ IF Len(st.key_data) = 0
           THEN task' = Set(t, Raise(st))
           ELSE \E bj \in {KsaRun(st.key_data, 256)} :
                   task' = Set(t, [st EXCEPT !.pc = "meta",
                                             !.box = bj[1], !.j = bj[2], !.i = 255,
                                             !.key_stream = KeyStreamOf(bj[1])])
        /\ UNCHANGED <<files, input, fsVars, mainVars>>

\* lines 95-105
ReadMetadata(t) ==
    LET st == task[t]
        m == input[t].meta
    IN  /\ st.pc = "meta"
        /\ task' = Set(t, IF ~m.present
                         THEN [st EXCEPT !.pc = "image", !.meta_data = DefaultMeta]
                         ELSE IF ~m.valid THEN Raise(st)
                         ELSE [st EXCEPT !.pc = "image",
                                         !.meta_data = [format |-> m.format,
                                                        artist |-> m.artist,
                                                        musicId |-> m.musicId]])
        /\ UNCHANGED <<files, input, fsVars, mainVars>>

\* lines 107-116
ReadImage(t) ==
    LET st == task[t]
    IN  /\ st.pc = "image"
        /\ task' = Set(t, [st EXCEPT !.pc = "open",
                                     !.image_data = input[t].image,
                                     !.audio_format = st.meta_data.format,
                                     !.output_path = WithSuffix(t, st.meta_data.format)])
        /\ UNCHANGED <<files, input, fsVars, mainVars>>

\* lines 118-119: open(output_path, 'wb') creates the file or truncates the
\* one that is there; it raises when the file cannot be opened
OpenOutput(t) ==
    LET st == task[t]
        old == dir[st.output_path]
        ino == IF old = NoIno THEN t ELSE old
    IN  /\ st.pc = "open"
        /\ \E opened \in BOOLEAN :
            IF opened
            THEN /\ dir' = [dir EXCEPT ![st.output_path] = ino]
                 /\ data' = [data EXCEPT ![ino] = <<>>]
                 /\ pic' = [pic EXCEPT ![ino] = <<>>]
                 /\ task' = Set(t, [st EXCEPT !.pc = "stream", !.out = ino,
                                              !.out_pos = 0, !.stream_index = 0])
            ELSE /\ task' = Set(t, Raise(st))
                 /\ UNCHANGED fsVars
        /\ UNCHANGED <<files, input, mainVars>>

\* f.read(0x8000)
ChunkSize == 32768
\* what one read asks the file for: the full chunk, or what a short read gives
ReadSizes == {1, 255, 256, ChunkSize}

\* DecryptChunk with the table index starting again at 0 in every chunk
DecryptChunkReset(chunk, key_stream, stream_index) ==
    [k \in 1..Len(chunk) |-> Xor(chunk[k], key_stream[And255(k - 1) + 1])]

\* lines 124-126 on a whole chunk
DecryptChunk(chunk, key_stream, stream_index) ==
    [k \in 1..Len(chunk) |->
        Xor(chunk[k], key_stream[And255(stream_index + k - 1) + 1])]

\* stream_index after the loop of lines 124-126 over n bytes
NextStreamIndex(stream_index, n) == And255(stream_index + n)

\* lines 120-127, one iteration: read, decrypt, write; an empty read ends the
\* loop and closes both files; a read or write error leaves through the
\* handler of line 200
StreamChunk(t) ==
    LET st == task[t]
        payload == input[t].payload
    IN  /\ st.pc = "stream"
        /\ \E size \in ReadSizes, io \in {"ok", "error"} :
            LET n == Min(size, Len(payload) - st.read_pos)
                chunk == SubSeq(payload, st.read_pos + 1, st.read_pos + n)
            IN  IF io = "error"
                THEN /\ task' = Set(t, Raise(st))
                     /\ UNCHANGED fsVars
                ELSE IF n = 0
                THEN /\ task' = Set(t, [st EXCEPT !.pc = "verify"])
                     /\ UNCHANGED fsVars
                ELSE /\ data' = [data EXCEPT ![st.out] =
                            WriteAt(@, st.out_pos,
                                    DecryptChunk(chunk, st.key_stream, st.stream_index))]
                     /\ task' = Set(t, [st EXCEPT
                            !.read_pos = @ + n, !.out_pos = @ + n,
                            !.stream_index = NextStreamIndex(@, n),
                            !.odd_split = @ \/ (st.read_pos % 256 # 0)])
                     /\ UNCHANGED <<dir, pic>>
        /\ UNCHANGED <<files, input, mainVars>>

\* lines 129-133
VerifyOutput(t) ==
    LET st == task[t]
    IN  /\ st.pc = "verify"
        /\ IF ~verify_output(st.output_path, st.audio_format)
           THEN /\ dir' = [dir EXCEPT ![st.output_path] = NoIno]
                /\ task' = Set(t, Return(st, Failure("Output verification failed")))
           ELSE /\ task' = Set(t, [st EXCEPT !.pc = "cover", !.cover_info = "None"])
                /\ UNCHANGED dir
        /\ UNCHANGED <<files, input, data, pic, mainVars>>

\* what the two services answer: the song-detail lookup raises (timeout or any
\* other error), answers another status than 200, lists no song; the picture
\* download succeeds, gives no bytes, succeeds on the second attempt, or
\* raises twice
NetOutcomes ==
    {"detail_error", "detail_not_200", "no_songs", "pic_ok", "pic_empty",
     "pic_retry_ok", "pic_both_error"}

\* whether lines 139-148 raise out of the try of line 134
FetchRaises(net) == net \in {"detail_error", "pic_both_error"}

\* cover_data after lines 136-148 when nothing is raised
FetchedCover(net) == IF net \in {"pic_ok", "pic_retry_ok"} THEN NetImage ELSE <<>>

\* CoverFailed without the handler: the exception reaches line 200
CoverFailedEscapes(st, where) ==
    [st EXCEPT !.pc = "returned", !.raised_in = where,
               !.result = Failure("exception")]

\* the handler of lines 178-179, entered from `where`
CoverFailed(st, where) ==
    [st EXCEPT !.pc = "artist", !.cover_info = "Failed", !.raised_in = where]

\* lines 135-148
FetchCover(t) ==
    LET st == task[t]
    IN  /\ st.pc = "cover"
        /\ \E net \in NetOutcomes :
            task' = Set(t, IF st.meta_data.musicId = 0
                          THEN [st EXCEPT !.pc = "embed", !.cover_data = <<>>]
                          ELSE IF FetchRaises(net) THEN CoverFailed(st, "fetch")
                          ELSE [st EXCEPT !.pc = "embed",
                                          !.cover_data = FetchedCover(net)])
        /\ UNCHANGED <<files, input, fsVars, mainVars>>

\* lines 150-177: fall back to the embedded image, decode the image, write
\* the picture into the output file; decoding or the tag writer may raise, and
\* the tag writer raises when the output file is gone
EmbedCover(t) ==
    LET st == task[t]
        embedded == st.cover_data = <<>> /\ st.image_data # <<>>
        cover_data == IF embedded THEN st.image_data ELSE st.cover_data
        ino == dir[st.output_path]
    IN  /\ st.pc = "embed"
        /\ \E tag \in {"ok", "decode_error", "save_error"} :
            IF cover_data = <<>>
            THEN /\ task' = Set(t, [st EXCEPT !.pc = "artist"])
                 /\ UNCHANGED pic
            ELSE IF tag # "ok" \/ ino = NoIno
            THEN /\ task' = Set(t, [CoverFailed(st, "embed") EXCEPT !.cover_data = cover_data])
                 /\ UNCHANGED pic
            ELSE /\ pic' = [pic EXCEPT ![ino] = cover_data]
                 /\ task' = Set(t, [st EXCEPT
                        !.pc = "artist", !.cover_data = cover_data,
                        !.tagged = cover_data,
                        !.cover_info = IF embedded THEN "Embedded WxH" ELSE "WxH"])
        /\ UNCHANGED <<files, input, dir, data, mainVars>>

\* lines 181-198, and lines 200-201 when the artist value cannot be indexed
ExtractArtist(t) ==
    LET st == task[t]
        artist_data == st.meta_data.artist
    IN  /\ st.pc = "artist"
        /\ task' = Set(t, IF ArtistRaises(artist_data)
                         THEN Raise(st)
                         ELSE Return(st, Success(ArtistOf(artist_data),
                                                 st.audio_format, st.cover_info)))
        /\ UNCHANGED <<files, input, fsVars, mainVars>>

-----------------------------------------------------------------------------
(* decrypt_ncm on one file *)

\* the file system before the run: no output, or one left by an earlier run
FsInit(prior) ==
    /\ dir = [p \in OutPaths |-> IF p \in prior THEN Prior ELSE NoIno]
    /\ data = [n \in InodeIds |-> IF n = Prior THEN PriorBytes ELSE <<>>]
    /\ pic = [n \in InodeIds |-> <<>>]

\* main has not started
MainIdle ==
    /\ future = [t \in files |-> "none"]
    /\ collected = {}
    /\ main_pc = "idle"
    /\ worker_count = 0
    /\ success_count = 0
    /\ fail_count = 0

Init ==
    /\ files = {XNcm}
    /\ input \in [files -> Containers]
    /\ \E prior \in {{}, {Path("x", "mp3")}} : FsInit(prior)
    /\ task = [t \in files |-> NewTask]
    /\ MainIdle

Next ==
    \/ \E t \in files : ReadHeader(t)
    \/ \E t \in files : RecoverKey(t)
    \/ \E t \in files : DeriveKeystream(t)
    \/ \E t \in files : ReadMetadata(t)
    \/ \E t \in files : ReadImage(t)
    \/ \E t \in files : OpenOutput(t)
    \/ \E t \in files : StreamChunk(t)
    \/ \E t \in files : VerifyOutput(t)
    \/ \E t \in files : FetchCover(t)
    \/ \E t \in files : EmbedCover(t)
    \/ \E t \in files : ExtractArtist(t)

Spec == Init /\ [][Next]_vars

-----------------------------------------------------------------------------
(* decrypt_ncm on one file, the keystream derivation statement by statement *)

\* lines 82-83
KsaStart(t) ==
    LET st == task[t]
    IN  /\ st.pc = "ksa"
        /\ task' = Set(t, [st EXCEPT !.pc = "ksa_loop", !.box = BoxInit,
                                     !.j = 0, !.i = 0])
        /\ UNCHANGED <<files, input, fsVars, mainVars>>

\* [0] * 256
ZeroTable == [k \in 1..256 |-> 0]

\* lines 84-86, one iteration; after the last, line 88
KsaLoop(t) ==
    LET st == task[t]
    IN  /\ st.pc = "ksa_loop"
        /\ task' = Set(t,
              IF st.i = 256
              THEN [st EXCEPT !.pc = "table_loop", !.key_stream = ZeroTable, !.i = 0]
              ELSE IF Len(st.key_data) = 0 THEN Raise(st)
              ELSE LET bj == KsaIter(<<st.box, st.j>>, st.i, st.key_data)
                   IN  [st EXCEPT !.box = bj[1], !.j = bj[2], !.i = @ + 1])
        /\ UNCHANGED <<files, input, fsVars, mainVars>>

\* lines 89-93, one iteration; the loop leaves i = 255
KeyStreamLoop(t) ==
    LET st == task[t]
    IN  /\ st.pc = "table_loop"
        /\ task' = Set(t,
              IF st.i = 256
              THEN [st EXCEPT !.pc = "meta", !.i = 255]
              ELSE [st EXCEPT !.key_stream[st.i + 1] = KeyStreamEntry(st.box, st.i),
                              !.i = @ + 1])
        /\ UNCHANGED <<files, input, fsVars, mainVars>>

\* decrypted key blocks of 0..MaxBlocks cipher blocks, every last byte
KeyBlocks ==
    {<<>>} \cup {KeyBuf(16 * b, last) : b \in 1..MaxBlocks, last \in Byte}

KeyContainers ==
    {[GoodContainer(AbsentMeta, <<>>, BaseAudio) EXCEPT !.key_plain = k] :
        k \in KeyBlocks}

InitKey ==
    /\ files = {XNcm}
    /\ input \in [files -> KeyContainers]
    /\ FsInit({})
    /\ task = [t \in files |-> NewTask]
    /\ MainIdle

NextKey ==
    \/ \E t \in files : ReadHeader(t)
    \/ \E t \in files : RecoverKey(t)
    \/ \E t \in files : KsaStart(t)
    \/ \E t \in files : KsaLoop(t)
    \/ \E t \in files : KeyStreamLoop(t)
    \/ \E t \in files : ReadMetadata(t)
    \/ \E t \in files : ReadImage(t)
    \/ \E t \in files : OpenOutput(t)
    \/ \E t \in files : StreamChunk(t)
    \/ \E t \in files : VerifyOutput(t)
    \/ \E t \in files : FetchCover(t)
    \/ \E t \in files : EmbedCover(t)
    \/ \E t \in files : ExtractArtist(t)

SpecKey == InitKey /\ [][NextKey]_vars

-----------------------------------------------------------------------------
(* decrypt_ncm on one file with a long payload *)

PayloadLengths == {0, 1, 255, 256, 257, MaxPayload}

StreamContainers ==
    {GoodContainer(AbsentMeta, <<>>, Audio(SigId3, n)) : n \in PayloadLengths}

InitStream ==
    /\ files = {XNcm}
    /\ input \in [files -> StreamContainers]
    /\ FsInit({})
    /\ task = [t \in files |-> NewTask]
    /\ MainIdle

SpecStream == InitStream /\ [][Next]_vars

-----------------------------------------------------------------------------
(* main: the worker pool and the collection loop *)

\* get_worker_count, with cpu_count = 0 for os.cpu_count() giving None
get_worker_count(os_cpu_count) ==
    LET cpu_count == IF os_cpu_count = 0 THEN 4 ELSE os_cpu_count
    IN  IF cpu_count >= 4 THEN cpu_count - 2 ELSE Max(1, cpu_count - 1)

\* lines 209-221: nothing to do, or the pool is made and every file submitted
MainStart ==
    /\ main_pc = "idle"
    /\ \E os_cpu_count \in 0..MaxCpu :
        IF files = {}
        THEN /\ main_pc' = "done"
             /\ UNCHANGED <<future, worker_count>>
        ELSE /\ main_pc' = "collect"
             /\ worker_count' = get_worker_count(os_cpu_count)
             /\ future' = [t \in files |-> "pending"]
    /\ success_count' = 0
    /\ fail_count' = 0
    /\ UNCHANGED <<files, input, fsVars, task, collected>>

Running == {t \in files : future[t] = "running"}

\* a free worker of the pool takes a submitted call
WorkerStart(t) ==
    /\ future[t] = "pending"
    /\ Cardinality(Running) < worker_count
    /\ future' = [future EXCEPT ![t] = "running"]
    /\ UNCHANGED <<files, input, fsVars, task, collected, main_pc, worker_count,
                   success_count, fail_count>>

\* decrypt_ncm returned: the future holds its result and the worker is free
WorkerDone(t) ==
    /\ future[t] = "running"
    /\ task[t].pc = "returned"
    /\ future' = [future EXCEPT ![t] = "done"]
    /\ UNCHANGED <<files, input, fsVars, task, collected, main_pc, worker_count,
                   success_count, fail_count>>

\* lines 226-227
NextSuccessCount(result, count) == IF result.success THEN count + 1 ELSE count
\* NextFailCount that forgets the failures
NextFailCountNever(result, count) == count

\* lines 230-231
NextFailCount(result, count) == IF result.success THEN count ELSE count + 1

\* lines 223-233: one iteration of the as_completed loop
Collect(t) ==
    /\ main_pc = "collect"
    /\ future[t] = "done"
    /\ t \notin collected
    /\ collected' = collected \cup {t}
    /\ success_count' = NextSuccessCount(task[t].result, success_count)
    /\ fail_count' = NextFailCount(task[t].result, fail_count)
    /\ UNCHANGED <<files, input, fsVars, task, future, main_pc, worker_count>>

\* line 235: as_completed is exhausted, the pool is shut down, the totals printed
Summary ==
    /\ main_pc = "collect"
    /\ collected = files
    /\ main_pc' = "done"
    /\ UNCHANGED <<files, input, fsVars, task, future, collected, worker_count,
                   success_count, fail_count>>

\* the containers of a batch: one that converts (mp3, embedded image), one
\* whose audio fails the signature check, one with a bad signature
BatchContainers ==
    {GoodContainer(AbsentMeta, EmbeddedImage, Audio(SigSyncB, 2)),
     GoodContainer(AbsentMeta, <<>>, Audio(<<0>>, 1)),
     [GoodContainer(AbsentMeta, <<>>, <<>>) EXCEPT !.head = <<>>]}

\* what script_dir.glob('*.ncm') + glob('*.NCM') may list
FileSets == {{}, {XNcm}, {XNcm, XNCM}, {XNcm, YNcm}}

InitMain ==
    /\ files \in FileSets
    /\ input \in [files -> BatchContainers]
    /\ FsInit({})
    /\ task = [t \in files |-> NewTask]
    /\ MainIdle

\* a worker runs its call
OnWorker(t) == future[t] = "running"

NextMain ==
    \/ MainStart
    \/ \E t \in files : WorkerStart(t)
    \/ \E t \in files : OnWorker(t) /\ ReadHeader(t)
    \/ \E t \in files : OnWorker(t) /\ RecoverKey(t)
    \/ \E t \in files : OnWorker(t) /\ DeriveKeystream(t)
    \/ \E t \in files : OnWorker(t) /\ ReadMetadata(t)
    \/ \E t \in files : OnWorker(t) /\ ReadImage(t)
    \/ \E t \in files : OnWorker(t) /\ OpenOutput(t)
    \/ \E t \in files : OnWorker(t) /\ StreamChunk(t)
    \/ \E t \in files : OnWorker(t) /\ VerifyOutput(t)
    \/ \E t \in files : OnWorker(t) /\ FetchCover(t)
    \/ \E t \in files : OnWorker(t) /\ EmbedCover(t)
    \/ \E t \in files : OnWorker(t) /\ ExtractArtist(t)
    \/ \E t \in files : WorkerDone(t)
    \/ \E t \in files : Collect(t)
    \/ Summary

SpecMain == InitMain /\ [][NextMain]_vars

\* the pool runs every submitted call to its end and main keeps collecting
FairSpecMain == SpecMain /\ WF_vars(NextMain)

-----------------------------------------------------------------------------
(* Properties *)

\* a call that left the payload loop by its break (not by an exception)
PastStream(st) ==
    \/ st.pc \in {"verify", "cover", "embed", "artist"}
    \/ st.pc = "returned" /\ st.result.success
    \/ st.pc = "returned" /\ st.result.error = "Output verification failed"

\* C1: whatever the split into chunks, the byte written at payload position p
\* is payload[p] XOR key_stream[p mod 256]; the bytes written so far are the
\* decrypted bytes read so far, in order; the table index is the number of
\* bytes read mod 256; once the loop has ended, as many bytes have been
\* written as the payload holds.
C1_StreamXor ==
    \A t \in files :
        LET st == task[t]
            payload == input[t].payload
        IN  st.out # NoIno =>
              /\ Len(data[st.out]) = st.read_pos
              /\ st.out_pos = st.read_pos
              /\ st.stream_index = st.read_pos % 256
              /\ \A p \in 0..(st.read_pos - 1) :
                    data[st.out][p + 1] =
                        Xor(payload[p + 1], st.key_stream[(p % 256) + 1])
              /\ PastStream(st) => st.read_pos = Len(payload)

\* a payload longer than two tables, fully written, with a chunk boundary off
\* a multiple of 256
C1_Witness ==
    \E t \in files :
        /\ task[t].pc = "verify"
        /\ task[t].read_pos > 512
        /\ task[t].read_pos % 256 # 0
        /\ task[t].odd_split

\* the first 8 bytes of the file differ from the signature
BadSignature(t) == Slice(input[t].head, 0, 8) # Magic

\* C2: a file whose first 8 bytes are not the signature (an empty or shorter
\* file included) makes decrypt_ncm return a failure in its first step, with
\* no key read, no keystream derived and no output file created or changed.
C2_BadHeaderRejected ==
    [][\A t \in files :
          BadSignature(t) =>
            /\ fsVars' = fsVars
            /\ task'[t] # task[t] =>
                 /\ task[t].pc = "start"
                 /\ task'[t].pc = "returned"
                 /\ ~task'[t].result.success
                 /\ task'[t].key_data = <<>>
                 /\ task'[t].key_stream = <<>>
                 /\ task'[t].out = NoIno]_vars

\* a file of 1 to 7 bytes was rejected and the earlier output is still there
C2_Witness ==
    \E t \in files :
        /\ Len(input[t].head) \in 1..7
        /\ task[t].pc = "returned"
        /\ dir[Path("x", "mp3")] = Prior
        /\ data[Prior] = PriorBytes

\* the signatures of section 4.5 of the specification
SignatureOk(bytes, format) ==
    \/ /\ format = "flac"
       /\ Len(bytes) >= 4
       /\ SubSeq(bytes, 1, 4) = <<102, 76, 97, 67>>
    \/ /\ format = "mp3"
       /\ \/ Len(bytes) >= 3 /\ SubSeq(bytes, 1, 3) = <<73, 68, 51>>
          \/ Len(bytes) >= 2 /\ SubSeq(bytes, 1, 2) \in {<<255, 251>>, <<255, 250>>}

\* C3: when the written output does not carry the signature of its format
\* (always so for a format other than flac and mp3), the step after the
\* payload loop deletes the output and returns a failure without entering the
\* cover step; a call is in the cover step or has returned success only with
\* an output that carries the signature.
C3_VerifyGate ==
    [][\A t \in files :
          LET st == task[t]
              nx == task'[t]
          IN  /\ (st.pc = "verify" /\ nx # st) =>
                    IF SignatureOk(data[st.out], st.audio_format)
                    THEN nx.pc = "cover"
                    ELSE /\ nx.pc = "returned"
                         /\ ~nx.result.success
                         /\ nx.result.error = "Output verification failed"
                         /\ nx.cover_info = ""
                         /\ dir'[st.output_path] = NoIno
              /\ (nx.result.success \/ nx.pc \in {"cover", "embed", "artist"}) =>
                    /\ nx.out # NoIno
                    /\ SignatureOk(data'[nx.out], nx.audio_format)]_vars

\* an output in a format other than flac and mp3 was written in full, failed
\* the check and was deleted
C3_Witness ==
    \E t \in files :
        /\ task[t].pc = "returned"
        /\ task[t].result.error = "Output verification failed"
        /\ task[t].audio_format = "ogg"
        /\ Len(data[task[t].out]) = Len(input[t].payload)
        /\ dir[task[t].output_path] = NoIno

\* C4: in every terminal state with success = False, the output file the call
\* opened is gone.
C4_FailedOutputDeleted ==
    \A t \in files :
        LET st == task[t]
        IN  (st.pc = "returned" /\ ~st.result.success /\ st.out # NoIno) =>
                dir[st.output_path] = NoIno

\* C7: with an embedded image, a cover fetch that raised (the lookup, or both
\* picture downloads) ends with the embedded image handed to the tag writer
\* and the file reported as success.
C7_EmbeddedFallback ==
    \A t \in files :
        LET st == task[t]
        IN  (st.pc = "returned" /\ st.raised_in = "fetch" /\ st.image_data # <<>>) =>
                /\ st.tagged = st.image_data
                /\ st.result.success

SectionPassIter(bj, i, key) ==
    LET jn == (bj[2] + bj[1][i + 1] + key[(i % Len(key)) + 1]) % 256
    IN  <<[[bj[1] EXCEPT ![i + 1] = bj[1][jn + 1]] EXCEPT ![jn + 1] = bj[1][i + 1]],
          jn>>

RECURSIVE SectionPass(_, _, _, _)
\* iterations lo..hi-1 of pass 1, in order
SectionPass(bj, lo, hi, key) ==
    IF hi <= lo THEN bj
    ELSE CHOOSE r \in
            {IF hi = lo + 1 THEN SectionPassIter(b, lo, key)
             ELSE SectionPass(SectionPass(b, lo, (lo + hi) \div 2, key),
                              (lo + hi) \div 2, hi, key) : b \in {bj}} : TRUE

\* section 4.4: table[i] = box[(box[k1] + box[k2]) mod 256]
SectionTableOf(box) ==
    [n \in 1..256 |->
        box[((box[(n % 256) + 1] + box[(((n % 256) + box[(n % 256) + 1]) % 256) + 1])
             % 256) + 1]]

SectionTable(key) ==
    CHOOSE tb \in {SectionTableOf(bj[1]) :
                    bj \in {SectionPass(<<[k \in 1..256 |-> k - 1], 0>>, 0, 256, key)}} :
        TRUE

IsPermutation(box) == Len(box) = 256 /\ {box[k] : k \in 1..256} = 0..255

\* the derivation of the call has finished on non-empty key material
Derived(st) ==
    /\ st.pc \notin {"start", "key", "ksa", "ksa_loop", "table_loop"}
    /\ Len(st.key_data) > 0

C9_Tables ==
    \A t \in files :
        LET st == task[t]
        IN  /\ st.box # <<>> => IsPermutation(st.box)
            /\ Derived(st) =>
                  /\ Len(st.key_stream) = 256
                  /\ \A k \in 1..256 : st.key_stream[k] \in Byte
                  /\ st.key_stream = SectionTable(st.key_data)

C9_Frozen ==
    \A t \in files :
        Derived(task[t]) =>
            /\ task'[t].key_stream = task[t].key_stream
            /\ task'[t].box = task[t].box

\* C9: for non-empty key material the derivation yields the table of section
\* 4.4; box is a permutation of 0..255 after every swap; the table has 256
\* entries, each a byte, is a function of the key alone and is not changed
\* once derived.
C9_Keystream == []C9_Tables /\ [][C9_Frozen]_vars

\* the table of the longest key of one cipher block less was derived and the
\* payload decrypted with it
C9_Witness ==
    \E t \in files :
        /\ task[t].pc = "returned"
        /\ task[t].result.success
        /\ Len(task[t].key_data) = 10
        /\ task[t].key_stream = SectionTable(task[t].key_data)

\* C10: on the decrypted key block s with last byte n, padding removal fails
\* when n exceeds the length of s and otherwise strips exactly n bytes, so
\* that the key material is s less its last n bytes less the 17-byte prefix.
C10_UnpadStrict ==
    \A t \in files :
        LET st == task[t]
            s == input[t].key_plain
            n == s[Len(s)]
        IN  (st.pc \notin {"start", "key"} /\ ~BadSignature(t) /\ Len(s) > 0) =>
                IF n > Len(s)
                THEN st.pc = "returned" /\ ~st.result.success /\ st.key_data = <<>>
                ELSE st.key_data = SubSeq(s, 18, Len(s) - n)

\* what decrypt_ncm writes for the container c processed alone
DecodedAlone(c) == Encrypt(c.payload, DeriveKeyStream(Drop17(unpad(c.key_plain))))

\* C5: when main is done, every input reported as success has its output file
\* in place, holding the decoded payload of that input and no other bytes,
\* whatever the siblings did.
C5_Independent ==
    main_pc = "done" =>
        \A t \in files :
            LET st == task[t]
            IN  st.result.success =>
                  /\ dir[st.output_path] # NoIno
                  /\ data[dir[st.output_path]] = DecodedAlone(input[t])

C6_Counts ==
    /\ success_count = Cardinality({t \in collected : task[t].result.success})
    /\ fail_count = Cardinality({t \in collected : ~task[t].result.success})
    /\ \A t \in collected : task[t].pc = "returned"
    /\ main_pc = "done" =>
          /\ collected = files
          /\ success_count + fail_count = Cardinality(files)

C6_OnlyCollect ==
    (success_count' # success_count \/ fail_count' # fail_count) =>
        /\ main_pc = "collect"
        /\ task' = task
        /\ \E t \in files \ collected : collected' = collected \cup {t}
        /\ (success_count' + fail_count') = (success_count + fail_count) + 1

\* C6: main takes exactly one result per file, in whatever order the calls
\* end: every call ends with a result, each result adds one to exactly one
\* of the two counters, the counters change in the collection loop only, and
\* main reaches its summary line, where success_count + fail_count =
\* len(files).
C6_OneResultPerFile ==
    /\ []C6_Counts
    /\ [][C6_OnlyCollect]_vars
    /\ <>(main_pc = "done")

\* two files, one converted and one failed, both collected
C6_Witness ==
    /\ main_pc = "done"
    /\ Cardinality(files) = 2
    /\ success_count = 1
    /\ fail_count = 1

====
